---- MODULE Spec2Model ----
(***************************************************************************)
(* Model of the Huberman podcast Q&A command line (huberman_cli.py):       *)
(* the corpus loader, the history formatter, the progress log handler and  *)
(* the interactive loop of main().                                         *)
(*                                                                         *)
(* A Python str is a sequence of one-character strings, so that slicing,   *)
(* find, split, strip and replace are computed as Python computes them.    *)
(***************************************************************************)
EXTENDS Integers, Sequences, FiniteSets, TLC

(***************************************************************************)
(* Python str primitives (0-based offsets, as in the source).              *)
(***************************************************************************)
\* The characters of the model are those a TLA+ string can hold: the Latin-1
\* range of Python's str. The characters str.strip() removes in that range:
\* space, \t \n \r \f, VT (0x0b), FS GS RS US (0x1c-0x1f), NEL (0x85) and
\* NBSP (0xa0).
Whitespace ==
    {" ", "\t", "\n", "\r", "\f", "", "", "", "", "", "", " "}

Min(a, b) == IF a < b THEN a ELSE b

\* s[i:i+len(sub)] == sub
MatchAt(s, sub, i) ==
    /\ i + Len(sub) <= Len(s)
    /\ \A k \in 1..Len(sub) : s[i + k] = sub[k]

\* s.find(sub): offset of the first occurrence, -1 when there is none
Find(s, sub) ==
    LET hits == {i \in 0..(Len(s) - Len(sub)) : MatchAt(s, sub, i)}
    IN  IF hits = {} THEN -1
        ELSE CHOOSE i \in hits : \A j \in hits : i <= j

\* sub in s
Contains(s, sub) == Find(s, sub) # -1

\* s[a:b] for a, b >= 0 (an empty string when b <= a)
Slice(s, a, b) ==
    LET lo == Min(a, Len(s))
        hi == Min(b, Len(s))
    IN  IF hi <= lo THEN <<>> ELSE SubSeq(s, lo + 1, hi)

\* s[a:]
SliceFrom(s, a) == Slice(s, a, Len(s))

\* s.strip()
Strip(s) ==
    LET keep == {i \in 1..Len(s) : s[i] \notin Whitespace}
    IN  IF keep = {} THEN <<>>
        ELSE LET first == CHOOSE i \in keep : \A j \in keep : i <= j
                 last  == CHOOSE i \in keep : \A j \in keep : j <= i
             IN  SubSeq(s, first, last)

\* s.startswith(p), s.endswith(p)
StartsWith(s, p) == MatchAt(s, p, 0)
EndsWith(s, p) == Len(p) <= Len(s) /\ MatchAt(s, p, Len(s) - Len(p))

\* s.split(sep, maxsplit): the list of parts; maxsplit = -1 is unlimited
RECURSIVE Split(_, _, _)
Split(s, sep, maxsplit) ==
    LET i == Find(s, sep)
    IN  IF maxsplit = 0 \/ i = -1 THEN <<s>>
        ELSE <<Slice(s, 0, i)>> \o Split(SliceFrom(s, i + Len(sep)), sep, maxsplit - 1)

\* s.replace(old, new)
RECURSIVE Replace(_, _, _)
Replace(s, old, new) ==
    LET i == Find(s, old)
    IN  IF i = -1 THEN s
        ELSE Slice(s, 0, i) \o new \o Replace(SliceFrom(s, i + Len(old)), old, new)

\* "sep".join(lines)
RECURSIVE Join(_, _)
Join(lines, sep) ==
    IF lines = <<>> THEN <<>>
    ELSE IF Len(lines) = 1 THEN lines[1]
    ELSE lines[1] \o sep \o Join(Tail(lines), sep)

\* the lower-case form of every cased character that has one (A-Z and the
\* Latin-1 capitals)
LowerOf ==
    ("A" :> "a") @@ ("B" :> "b") @@ ("C" :> "c") @@ ("D" :> "d") @@ ("E" :> "e") @@ ("F" :> "f")
    @@ ("G" :> "g") @@ ("H" :> "h") @@ ("I" :> "i") @@ ("J" :> "j") @@ ("K" :> "k") @@ ("L" :> "l")
    @@ ("M" :> "m") @@ ("N" :> "n") @@ ("O" :> "o") @@ ("P" :> "p") @@ ("Q" :> "q") @@ ("R" :> "r")
    @@ ("S" :> "s") @@ ("T" :> "t") @@ ("U" :> "u") @@ ("V" :> "v") @@ ("W" :> "w") @@ ("X" :> "x")
    @@ ("Y" :> "y") @@ ("Z" :> "z") @@ ("À" :> "à") @@ ("Á" :> "á") @@ ("Â" :> "â") @@ ("Ã" :> "ã")
    @@ ("Ä" :> "ä") @@ ("Å" :> "å") @@ ("Æ" :> "æ") @@ ("Ç" :> "ç") @@ ("È" :> "è") @@ ("É" :> "é")
    @@ ("Ê" :> "ê") @@ ("Ë" :> "ë") @@ ("Ì" :> "ì") @@ ("Í" :> "í") @@ ("Î" :> "î") @@ ("Ï" :> "ï")
    @@ ("Ð" :> "ð") @@ ("Ñ" :> "ñ") @@ ("Ò" :> "ò") @@ ("Ó" :> "ó") @@ ("Ô" :> "ô") @@ ("Õ" :> "õ")
    @@ ("Ö" :> "ö") @@ ("Ø" :> "ø") @@ ("Ù" :> "ù") @@ ("Ú" :> "ú") @@ ("Û" :> "û") @@ ("Ü" :> "ü")
    @@ ("Ý" :> "ý") @@ ("Þ" :> "þ")

\* c.lower() for one character
LowerChar(c) == IF c \in DOMAIN LowerOf THEN LowerOf[c] ELSE c

\* s.lower()
Lower(s) == [i \in 1..Len(s) |-> LowerChar(s[i])]

\* str(n) for n >= 0, in decimal
Digit(d) == <<"0", "1", "2", "3", "4", "5", "6", "7", "8", "9">>[d + 1]

RECURSIVE IntStr(_)
IntStr(n) == IF n < 10 THEN <<Digit(n)>> ELSE IntStr(n \div 10) \o <<Digit(n % 10)>>

(***************************************************************************)
(* String literals of the source.                                          *)
(***************************************************************************)
NL == <<"\n">>
RLM_MARKER == <<"R","L","M"," ","i","t","e","r","a","t","i","o","n">>
ITERATION == <<"i","t","e","r","a","t","i","o","n">>
REASONING == <<"R","e","a","s","o","n","i","n","g",":">>
CODE == <<"C","o","d","e",":">>
\* the backquote character (the lexer of TLA+ does not accept it in a string)
BQ == "backquote"

FENCE_PYTHON == <<BQ,BQ,BQ,"p","y","t","h","o","n">>
FENCE == <<BQ,BQ,BQ>>
ELLIPSIS == <<".",".",".">>
CODE_TRUNCATED == <<"\n","#"," ",".",".","."," ","(","t","r","u","n","c","a","t","e","d",")">>
NO_HISTORY == <<"N","o"," ","p","r","e","v","i","o","u","s"," ","c","o","n","v","e","r","s","a","t","i","o","n",".">>
HISTORY_HEADER == <<"P","r","e","v","i","o","u","s"," ","c","o","n","v","e","r","s","a","t","i","o","n",":">>
VTT == <<".","v","t","t">>
TXT == <<".","t","x","t">>
CMD_QUIT == <<"q","u","i","t">>
CMD_EXIT == <<"e","x","i","t">>
CMD_Q == <<"q">>
CMD_HELP == <<"h","e","l","p">>
CMD_RESET == <<"r","e","s","e","t">>
CMD_HISTORY == <<"h","i","s","t","o","r","y">>

ReasoningLimit == 500
CodeLimit == 800
HistoryAnswerLimit == 200

(***************************************************************************)
(* Corpus loader: load_transcripts().                                      *)
(***************************************************************************)
\* TRANSCRIPTS_DIR.glob("*.txt"): the names in the directory ending in .txt
GlobTxt(d) == {n \in d : EndsWith(n, TXT)}

\* s.rfind(sub): offset of the last occurrence, -1 when there is none
RFind(s, sub) ==
    LET hits == {i \in 0..(Len(s) - Len(sub)) : MatchAt(s, sub, i)}
    IN  IF hits = {} THEN -1
        ELSE CHOOSE i \in hits : \A j \in hits : j <= i

\* filepath.stem: the name without its last suffix; a dot that starts or ends
\* the name starts no suffix (".txt" is its own stem)
Stem(n) ==
    LET i == RFind(n, <<".">>)
    IN  IF 0 < i /\ i < Len(n) - 1 THEN Slice(n, 0, i) ELSE n

\* the title derived from one file name
Title(n) ==
    LET parts == Split(Stem(n), <<"_">>, 2)
    IN  IF Len(parts) >= 3
        THEN Replace(Replace(parts[3], <<"_">>, <<" ">>), VTT, <<>>)
        ELSE Stem(n)

\* filepath.read_text(): the body of a file is whatever the file holds; here a
\* file holds its own name, so that distinct files have distinct bodies
ReadText(n) == n

\* The set of dictionaries load_transcripts() can return for directory d: glob
\* yields the files in an arbitrary order and a later file with the same title
\* overwrites the earlier entry.
load_transcripts(d) ==
    LET files  == GlobTxt(d)
        titles == {Title(n) : n \in files}
    IN  {t \in [titles -> {ReadText(n) : n \in files}] :
            \A k \in titles : \E n \in files : Title(n) = k /\ t[k] = ReadText(n)}

(***************************************************************************)
(* History formatter: format_history().                                    *)
(***************************************************************************)
\* the two lines of entry i: "\nQ{i}: {q}" and "A{i}: {a}"
HistoryLines(i, q, a) ==
    << NL \o <<"Q">> \o IntStr(i) \o <<":", " ">> \o q,
       <<"A">> \o IntStr(i) \o <<":", " ">> \o a >>

RECURSIVE HistoryLinesFrom(_, _)
HistoryLinesFrom(h, i) ==
    IF i > Len(h) THEN <<>>
    ELSE HistoryLines(i, h[i][1], h[i][2]) \o HistoryLinesFrom(h, i + 1)

format_history(h) ==
    IF h = <<>> THEN NO_HISTORY
    ELSE Join(<<HISTORY_HEADER>> \o HistoryLinesFrom(h, 1), NL)

(***************************************************************************)
(* Progress interpreter: RLMProgressHandler.emit().                        *)
(***************************************************************************)
\* msg.split("\n", 1)
MsgParts(msg) == Split(msg, NL, 1)

\* header.split("iteration")[1] raises IndexError when the header line holds
\* no "iteration"
IterNumRaises(header) == Len(Split(header, ITERATION, -1)) < 2

\* header.split("iteration")[1].strip().split("/")[0].strip()
IterNum(header) ==
    Strip(Split(Strip(Split(header, ITERATION, -1)[2]), <<"/">>, -1)[1])

reasoning_start(content) == Find(content, REASONING) + Len(REASONING)

code_start(content) == Find(content, CODE)

\* the test "if code_start > 0"
CodeFound(content) == code_start(content) > 0

\* the local variable reasoning
ReasoningSegment(content) ==
    IF CodeFound(content)
    THEN Strip(Slice(content, reasoning_start(content), code_start(content)))
    ELSE Strip(SliceFrom(content, reasoning_start(content)))

\* the local variable code, before the fences are removed
CodeSegment(content) ==
    IF CodeFound(content)
    THEN Strip(SliceFrom(content, code_start(content) + Len(CODE)))
    ELSE <<>>

\* reasoning[:500] + "..." if len(reasoning) > 500 else reasoning
ReasoningDisplay(reasoning) ==
    IF Len(reasoning) > ReasoningLimit
    THEN Slice(reasoning, 0, ReasoningLimit) \o ELLIPSIS
    ELSE reasoning

\* the first matching prefix of ("```python", "```") is removed
StripFencePrefix(code) ==
    IF StartsWith(code, FENCE_PYTHON) THEN SliceFrom(code, Len(FENCE_PYTHON))
    ELSE IF StartsWith(code, FENCE) THEN SliceFrom(code, Len(FENCE))
    ELSE code

\* if code.endswith("```"): code = code[:-3]
StripFenceSuffix(code) ==
    IF EndsWith(code, FENCE) THEN Slice(code, 0, Len(code) - 3) ELSE code

\* the text shown in the Code panel
CodeDisplay(code) ==
    LET bare == Strip(StripFenceSuffix(StripFencePrefix(Strip(code))))
    IN  IF Len(bare) > CodeLimit
        THEN Slice(bare, 0, CodeLimit) \o CODE_TRUNCATED
        ELSE bare

IterationStart(index) == [type |-> "IterationStart", text |-> index]
ReasoningBlock(text) == [type |-> "ReasoningBlock", text |-> text]
CodeBlock(text) == [type |-> "CodeBlock", text |-> text]

\* the panels printed for a body that holds "Reasoning:"
BodyEvents(content) ==
    LET reasoning == ReasoningSegment(content)
        code      == CodeSegment(content)
    IN  (IF reasoning # <<>> THEN <<ReasoningBlock(ReasoningDisplay(reasoning))>> ELSE <<>>)
        \o (IF code # <<>> THEN <<CodeBlock(CodeDisplay(code))>> ELSE <<>>)

\* One call of emit: whether it raised, and what it printed before returning
\* or raising.
emit(msg) ==
    IF ~Contains(msg, RLM_MARKER) THEN [raised |-> FALSE, events |-> <<>>]
    ELSE LET parts  == MsgParts(msg)
             header == parts[1]
         IN  IF IterNumRaises(header) THEN [raised |-> TRUE, events |-> <<>>]
             ELSE IF Len(parts) <= 1 \/ ~Contains(parts[2], REASONING)
             THEN [raised |-> FALSE, events |-> <<IterationStart(IterNum(header))>>]
             ELSE [raised |-> FALSE,
                   events |-> <<IterationStart(IterNum(header))>> \o BodyEvents(parts[2])]

(***************************************************************************)
(* The inputs of the model.                                                *)
(***************************************************************************)
\* the length of the Conversation History at which the model stops asking
\* questions; the program has no such limit
MaxHistory == 3

\* the largest number of parts a progress log body is built from
MaxBodyParts == 3

FILE_NOTES == <<"n","o","t","e","s",".","t","x","t">>
FILE_EPISODE == <<"e","p","_","0","1","_","H","o","w","_","t","o",".","t","x","t">>
FILE_T1 == <<"a","_","b","_","T",".","t","x","t">>
FILE_T2 == <<"c","_","d","_","T",".","t","x","t">>
FILE_NO_TITLE == <<"a","_","b","_",".","t","x","t">>
FILE_ONLY_VTT == <<"a","_","b","_",".","v","t","t",".","t","x","t">>
FILE_README == <<"r",".","m","d">>
FILE_DOT_TXT == <<".","t","x","t">>

\* the transcript directories a run can start from
Dirs ==
    { {},
      {FILE_README},
      {FILE_NOTES, FILE_EPISODE, FILE_README, FILE_DOT_TXT},
      {FILE_T1, FILE_T2},
      {FILE_NO_TITLE, FILE_ONLY_VTT} }

\* the raw lines input() can return
InputLines ==
    { <<>>, <<" ">>,
      <<"q">>, <<" ","Q","u","i","t","\r">>, <<"E","X","I","T">>,
      <<"H","e","l","p"," ">>,
      <<"r","e","s","e","t">>, <<"R","E","S","E","T">>,
      <<" ","h","i","s","t","o","r","y">>,
      <<" ","Y"," ">> }

ANSWER_SHORT == <<"a">>
ANSWER_WITH_MARKERS == <<"a","\n","\n","Q","2",":"," ","Y","\n","A","2",":"," ","a">>
ANSWER_LONG == [i \in 1..(HistoryAnswerLimit + 1) |-> "z"]

\* the answer strings the engine can return
Answers == {ANSWER_SHORT, ANSWER_WITH_MARKERS, ANSWER_LONG}

\* the values of result.sources: absent or empty, or a list of citations
SourceLists == { <<>>, << <<"s">> >> }

\* str(result) of a returned object
RESULT_STR == <<"P","r","e","d","i","c","t","i","o","n">>

\* the objects the engine can return: an answer string, optional sources
Results == [answer : Answers, sources : SourceLists, str : {RESULT_STR}]

ERR_TIMEOUT == <<"t","i","m","e","o","u","t">>
ERR_INDEX == <<"l","i","s","t"," ","i","n","d","e","x"," ","o","u","t"," ","o","f"," ","r","a","n","g","e">>
ERR_EXIT == <<"e","x","i","t">>
ERR_DISPLAY == <<"m","a","r","k","u","p">>

HDR_OK == <<"R","L","M"," ","i","t","e","r","a","t","i","o","n"," ","3","/","2","0">>
HDR_NO_SLASH == <<"R","L","M"," ","i","t","e","r","a","t","i","o","n"," ","3">>
HDR_NO_TOKEN == <<"S","t","e","p"," ","3","/","2","0">>

Headers == {HDR_OK, HDR_NO_SLASH, HDR_NO_TOKEN}

BodyParts == {REASONING, CODE, <<" ","x","\n">>, RLM_MARKER}

RECURSIVE Flatten(_)
Flatten(parts) == IF parts = <<>> THEN <<>> ELSE parts[1] \o Flatten(Tail(parts))

Bodies == {Flatten(ps) : ps \in UNION {[1..n -> BodyParts] : n \in 0..MaxBodyParts}}

\* the messages the engine can log while it runs
LogLines == Headers \cup {h \o NL \o b : h \in Headers, b \in Bodies}

(***************************************************************************)
(* Session controller: main().                                             *)
(***************************************************************************)
VARIABLES
    pc,            \* Loading, AwaitingInput, ProcessingQuestion, LoopLeft (the loop
                   \* was left, line 236 has not run), Terminated (farewell printed,
                   \* main() returned), StartupFailed (sys.exit(1)),
                   \* StartupInterrupted (KeyboardInterrupt left main() before the
                   \* loop), Aborted (an exception left main() from the loop or from
                   \* line 236)
    dir,           \* the file names in TRANSCRIPTS_DIR
    transcripts,   \* the corpus: title -> body
    history,       \* the Conversation History: a list of (question, answer)
    input,         \* what the last call of input() gave: a line, end-of-input, an
                   \* interrupt
    question,      \* the local variable question
    engine,        \* the rlm(...) call: idle, running, logging, returned, raised
    engine_calls,  \* the rlm(...) calls made for the last line read
    passed,        \* the conversation_history argument of the last rlm(...) call
    result,        \* the object the rlm(...) call returned
    error,         \* the message of the exception the rlm(...) call raised
    logline,       \* the log message the handler was last called with
    emitted,       \* what that call of emit did
    shown,         \* the last thing printed on the console
    answered,      \* the exchanges answered successfully since the last reset
    left_by,       \* what left the loop: none, quit (the break of line 196),
                   \* KeyboardInterrupt or EOFError (the break of line 234)
    uncaught       \* the exception that left main(): none, KeyboardInterrupt,
                   \* BaseException (one that is neither an Exception nor a
                   \* KeyboardInterrupt: SystemExit, GeneratorExit, CancelledError)

vars == <<pc, dir, transcripts, history, input, question, engine, engine_calls,
          passed, result, error, logline, emitted, shown, answered, left_by, uncaught>>

NoInput == [kind |-> "none", text |-> <<>>]
Line(text) == [kind |-> "line", text |-> text]
NoResult == [answer |-> <<>>, sources |-> <<>>, str |-> <<>>]
NoEmit == [raised |-> FALSE, events |-> <<>>]
Shown(kind, text, items) == [kind |-> kind, text |-> text, items |-> items]

\* nothing has been printed yet
Nothing == Shown("nothing", <<>>, <<>>)

\* console.print("[dim]Loading transcripts...[/dim]")
Loading == Shown("loading", <<>>, <<>>)

\* console.print("[red]No transcripts found. Run: unzip transcripts.zip[/red]")
NoTranscripts == Shown("no_transcripts", <<>>, <<>>)

\* console.print("[dim]Configuring models...[/dim]")
Configuring == Shown("configuring", <<>>, <<>>)

\* console.print("[bold cyan]?[/bold cyan] ", end="")
Prompt == Shown("prompt", <<>>, <<>>)

\* console.clear()
Cleared == Shown("cleared", <<>>, <<>>)

\* print_welcome(len(transcripts))
print_welcome(n) == Shown("welcome", IntStr(n), <<>>)

\* print_help()
print_help == Shown("help", <<>>, <<>>)

\* console.print("\n[dim]Goodbye![/dim]")
Goodbye == Shown("goodbye", <<>>, <<>>)

\* getattr(result, 'answer', str(result))
ResultAnswer(r) == IF "answer" \in DOMAIN r THEN r.answer ELSE r.str

\* display_answer(result): the Response panel and, when there are any, the sources
display_answer(r) == Shown("answer", ResultAnswer(r), r.sources)

\* console.print(f"\n[red]Error: {e}[/red]")
ShowError(e) == Shown("error", e, <<>>)

\* console.rule("[bold green]Answer[/bold green]", style="green")
AnswerRule == Shown("answer_rule", <<>>, <<>>)

\* the Response panel of display_answer, before any Sources panel
ResponsePanel(r) == Shown("answer", ResultAnswer(r), <<>>)

\* what display_answer(result) has last printed when it is cut short or done
DisplayedSoFar(r) == {AnswerRule, ResponsePanel(r), display_answer(r)}

CONTEXT_PREFIX == <<"[","d","i","m","]","C","o","n","t","e","x","t",":"," ">>
CONTEXT_SUFFIX == <<" ","p","r","e","v","i","o","u","s"," ","t","u","r","n","(","s",")","[","/","d","i","m","]">>

\* console.print(f"[dim]Context: {len(history)} previous turn(s)[/dim]")
ContextLine(n) == Shown("context", CONTEXT_PREFIX \o IntStr(n) \o CONTEXT_SUFFIX, <<>>)

\* a[:200] + ('...' if len(a) > 200 else '')
ElideAnswer(a) ==
    Slice(a, 0, HistoryAnswerLimit) \o (IF Len(a) > HistoryAnswerLimit THEN ELLIPSIS ELSE <<>>)

\* what the history command prints
ShowHistory(h) ==
    IF h = <<>> THEN Shown("no_history", <<>>, <<>>)
    ELSE Shown("history", <<>>, [i \in 1..Len(h) |-> <<h[i][1], ElideAnswer(h[i][2])>>])

\* what the history command has last printed when it is cut short or done:
\* the entries up to some Qi, or up to some Ai
HistoryShownSoFar(h) ==
    IF h = <<>> THEN {ShowHistory(h)}
    ELSE {Shown("history", <<>>,
                [i \in 1..n |-> IF i = n /\ onlyQ THEN <<h[i][1]>>
                                ELSE <<h[i][1], ElideAnswer(h[i][2])>>]) :
             n \in 1..Len(h), onlyQ \in BOOLEAN}

\* question[:60] + ('...' if len(question) > 60 else '')
QuestionRuleLimit == 60

QuestionRule(q) ==
    Shown("question",
          Slice(q, 0, QuestionRuleLimit) \o (IF Len(q) > QuestionRuleLimit THEN ELLIPSIS ELSE <<>>),
          <<>>)

\* cmd = question.lower(), with question = input().strip()
Cmd(line) == Lower(Strip(line))

QuitCommands == {CMD_QUIT, CMD_EXIT, CMD_Q}
Commands == QuitCommands \cup {CMD_HELP, CMD_RESET, CMD_HISTORY}

Init ==
    /\ pc = "Loading"
    /\ dir \in Dirs
    /\ transcripts = [t \in {} |-> <<>>]
    /\ history = <<>>
    /\ input = NoInput
    /\ question = <<>>
    /\ engine = "idle"
    /\ engine_calls = 0
    /\ passed = <<>>
    /\ result = NoResult
    /\ error = <<>>
    /\ logline = <<>>
    /\ emitted = NoEmit
    /\ shown = Nothing
    /\ answered = <<>>
    /\ left_by = "none"
    /\ uncaught = "none"

\* main() up to the loop: load the corpus, refuse to start without one
Startup ==
    /\ pc = "Loading"
    /\ \E t \in load_transcripts(dir) :
        /\ transcripts' = t
        /\ IF DOMAIN t = {}
           THEN pc' = "StartupFailed" /\ shown' = NoTranscripts
           ELSE pc' = "AwaitingInput" /\ shown' = print_welcome(Cardinality(DOMAIN t))
    /\ UNCHANGED <<dir, history, input, question, engine, engine_calls, passed,
                   result, error, logline, emitted, answered, left_by, uncaught>>

\* A KeyboardInterrupt before the loop is inside no try: it leaves main()
\* uncaught, with no farewell. It arrives before or after the first print while
\* the corpus is not loaded yet, or once it is loaded: before anything more is
\* printed, while the empty corpus is reported, while the models are
\* configured or while the welcome banner is printed.
StartupInterrupted ==
    /\ pc = "Loading"
    /\ \/ /\ transcripts' = transcripts
          /\ shown' \in {Nothing, Loading}
       \/ \E t \in load_transcripts(dir) :
             /\ transcripts' = t
             /\ shown' \in {Loading} \cup
                           (IF DOMAIN t = {}
                            THEN {NoTranscripts}
                            ELSE {Configuring, print_welcome(Cardinality(DOMAIN t))})
    /\ uncaught' = "KeyboardInterrupt"
    /\ pc' = "StartupInterrupted"
    /\ UNCHANGED <<dir, history, input, question, engine, engine_calls, passed,
                   result, error, logline, emitted, answered, left_by>>

\* what every pass of the loop does with the line it reads
ReadLine(line) ==
    /\ pc = "AwaitingInput"
    /\ input' = Line(line)
    /\ question' = Strip(line)
    /\ UNCHANGED <<dir, transcripts, result, error, logline, emitted, uncaught>>

\* if not question: continue
Blank(line) ==
    /\ ReadLine(line)
    /\ Strip(line) = <<>>
    /\ shown' = Prompt
    /\ engine_calls' = 0
    /\ UNCHANGED <<pc, history, engine, passed, answered, left_by>>

\* if cmd in ('quit', 'exit', 'q'): break
Quit(line) ==
    /\ ReadLine(line)
    /\ Cmd(line) \in QuitCommands
    /\ pc' = "LoopLeft"
    /\ left_by' = "quit"
    /\ shown' = Prompt
    /\ engine_calls' = 0
    /\ UNCHANGED <<history, engine, passed, answered>>

\* if cmd == 'help'
Help(line) ==
    /\ ReadLine(line)
    /\ Cmd(line) = CMD_HELP
    /\ shown' = print_help
    /\ engine_calls' = 0
    /\ UNCHANGED <<pc, history, engine, passed, answered, left_by>>

Reset_KeepsHistory(line) ==
    /\ ReadLine(line)
    /\ Cmd(line) = CMD_RESET
    /\ shown' = print_welcome(Cardinality(DOMAIN transcripts))
    /\ engine_calls' = 0
    /\ UNCHANGED <<pc, history, engine, passed, answered, left_by>>

\* if cmd == 'reset'
Reset(line) ==
    /\ ReadLine(line)
    /\ Cmd(line) = CMD_RESET
    /\ history' = <<>>
    /\ answered' = <<>>
    /\ shown' = print_welcome(Cardinality(DOMAIN transcripts))
    /\ engine_calls' = 0
    /\ UNCHANGED <<pc, engine, passed, left_by>>

History_TruncatesStored(line) ==
    /\ ReadLine(line)
    /\ Cmd(line) = CMD_HISTORY
    /\ history' = [i \in 1..Len(history) |-> <<history[i][1], ElideAnswer(history[i][2])>>]
    /\ shown' = ShowHistory(history)
    /\ engine_calls' = 0
    /\ UNCHANGED <<pc, engine, passed, answered, left_by>>

\* if cmd == 'history'
History(line) ==
    /\ ReadLine(line)
    /\ Cmd(line) = CMD_HISTORY
    /\ shown' = ShowHistory(history)
    /\ engine_calls' = 0
    /\ UNCHANGED <<pc, history, engine, passed, answered, left_by>>

Ask_LastPairOnly(line) ==
    /\ ReadLine(line)
    /\ Strip(line) # <<>>
    /\ Cmd(line) \notin Commands
    /\ Len(history) < MaxHistory
    /\ pc' = "ProcessingQuestion"
    /\ engine' = "running"
    /\ engine_calls' = 1
    /\ passed' = format_history(IF history = <<>> THEN <<>> ELSE <<history[Len(history)]>>)
    /\ shown' = QuestionRule(Strip(line))
    /\ UNCHANGED <<history, answered, left_by>>

\* any other line is a question: rlm(transcripts, format_history(history),
\* question). The program asks however long the history is; the model stops
\* asking once the history holds MaxHistory exchanges.
Ask(line) ==
    /\ ReadLine(line)
    /\ Strip(line) # <<>>
    /\ Cmd(line) \notin Commands
    /\ Len(history) < MaxHistory
    /\ pc' = "ProcessingQuestion"
    /\ engine' = "running"
    /\ engine_calls' = 1
    /\ passed' = format_history(history)
    /\ shown' = QuestionRule(Strip(line))
    /\ UNCHANGED <<history, answered, left_by>>

\* A KeyboardInterrupt after input() returned a line and before the pass ends
\* or calls the engine: it is raised inside the try, so line 233 catches it and
\* line 234 leaves the loop. It arrives before the line is assigned to
\* question, or after it: before the branch of the line does anything, or
\* while that branch prints (for reset, once the history is cleared; for
\* history, after any Qi or Ai line; for a question, after the context line or
\* the rule).
PassInterrupted(line) ==
    /\ pc = "AwaitingInput"
    /\ input' = Line(line)
    /\ \/ /\ question' = question
          /\ shown' = Prompt
          /\ UNCHANGED <<history, answered>>
       \/ /\ question' = Strip(line)
          /\ shown' = Prompt
          /\ UNCHANGED <<history, answered>>
       \/ /\ question' = Strip(line)
          /\ Cmd(line) = CMD_HELP
          /\ shown' = print_help
          /\ UNCHANGED <<history, answered>>
       \/ /\ question' = Strip(line)
          /\ Cmd(line) = CMD_RESET
          /\ history' = <<>>
          /\ answered' = <<>>
          /\ shown' \in {Prompt, Cleared, print_welcome(Cardinality(DOMAIN transcripts))}
       \/ /\ question' = Strip(line)
          /\ Cmd(line) = CMD_HISTORY
          /\ shown' \in HistoryShownSoFar(history)
          /\ UNCHANGED <<history, answered>>
       \/ /\ question' = Strip(line)
          /\ Strip(line) # <<>>
          /\ Cmd(line) \notin Commands
          /\ shown' \in {QuestionRule(Strip(line))} \cup
                        (IF history # <<>> THEN {ContextLine(Len(history))} ELSE {})
          /\ UNCHANGED <<history, answered>>
    /\ engine_calls' = 0
    /\ left_by' = "KeyboardInterrupt"
    /\ pc' = "LoopLeft"
    /\ UNCHANGED <<dir, transcripts, engine, passed, result, error, logline, emitted,
                   uncaught>>

\* except (KeyboardInterrupt, EOFError): break, with no line read: input()
\* raises EOFError at end-of-input, and a KeyboardInterrupt arrives inside the
\* try while the prompt is printed or input() waits
EndOfInput ==
    /\ pc = "AwaitingInput"
    /\ \/ /\ input' = [kind |-> "eof", text |-> <<>>]
          /\ left_by' = "EOFError"
          /\ shown' = Prompt
       \/ /\ input' = [kind |-> "interrupt", text |-> <<>>]
          /\ left_by' = "KeyboardInterrupt"
          /\ shown' \in {shown, Prompt}
    /\ pc' = "LoopLeft"
    /\ UNCHANGED <<dir, transcripts, history, question, engine, engine_calls, passed,
                   result, error, logline, emitted, answered, uncaught>>

\* A KeyboardInterrupt between two passes of the loop: at the jump back to
\* line 186 that ends a pass (the continue of lines 192, 199, 204 and 213, the
\* end of the body after line 231) or before the first pass enters the try of
\* line 187. No try covers that point: the exception leaves main().
LoopInterrupted ==
    /\ pc = "AwaitingInput"
    /\ pc' = "Aborted"
    /\ uncaught' = "KeyboardInterrupt"
    /\ UNCHANGED <<dir, transcripts, history, input, question, engine, engine_calls,
                   passed, result, error, logline, emitted, shown, answered, left_by>>

\* console.print("\n[dim]Goodbye![/dim]"), then main() returns
Farewell ==
    /\ pc = "LoopLeft"
    /\ shown' = Goodbye
    /\ pc' = "Terminated"
    /\ UNCHANGED <<dir, transcripts, history, input, question, engine, engine_calls,
                   passed, result, error, logline, emitted, answered, left_by, uncaught>>

\* A KeyboardInterrupt once the loop is left: line 236 is inside no try, so the
\* exception leaves main(), before the farewell is printed or after it.
FarewellInterrupted ==
    /\ pc = "LoopLeft"
    /\ shown' \in {shown, Goodbye}
    /\ pc' = "Aborted"
    /\ uncaught' = "KeyboardInterrupt"
    /\ UNCHANGED <<dir, transcripts, history, input, question, engine, engine_calls,
                   passed, result, error, logline, emitted, answered, left_by>>

\* emit applied to every message the engine can log
EmitOf == [msg \in LogLines |-> emit(msg)]

\* the engine logs a message while it runs: logging calls the handler's emit
\* with it, on the same thread, before the engine goes on
EngineLog ==
    /\ pc = "ProcessingQuestion"
    /\ engine = "running"
    /\ \E msg \in LogLines :
        /\ logline' = msg
        /\ emitted' = EmitOf[msg]
    /\ engine' = "logging"
    /\ UNCHANGED <<pc, dir, transcripts, history, input, question, engine_calls,
                   passed, result, error, shown, answered, left_by, uncaught>>

\* the logging call comes back to the engine, which goes on: emit returned, or
\* the engine caught what emit raised
EngineLogDone ==
    /\ pc = "ProcessingQuestion"
    /\ engine = "logging"
    /\ engine' = "running"
    /\ logline' = <<>>
    /\ emitted' = NoEmit
    /\ UNCHANGED <<pc, dir, transcripts, history, input, question, engine_calls,
                   passed, result, error, shown, answered, left_by, uncaught>>

\* the exception emit raised inside the engine's logging call leaves the
\* rlm(...) call
EmitErrorPropagates ==
    /\ pc = "ProcessingQuestion"
    /\ engine = "logging"
    /\ emitted.raised
    /\ error' = ERR_INDEX
    /\ engine' = "raised"
    /\ logline' = <<>>
    /\ emitted' = NoEmit
    /\ UNCHANGED <<pc, dir, transcripts, history, input, question, engine_calls,
                   passed, result, shown, answered, left_by, uncaught>>

\* the rlm(...) call returns a result
EngineReturns ==
    /\ pc = "ProcessingQuestion"
    /\ engine = "running"
    /\ \E r \in Results : result' = r
    /\ engine' = "returned"
    /\ UNCHANGED <<pc, dir, transcripts, history, input, question, engine_calls,
                   passed, error, logline, emitted, shown, answered, left_by, uncaught>>

\* the rlm(...) call raises an Exception of its own
EngineRaises ==
    /\ pc = "ProcessingQuestion"
    /\ engine = "running"
    /\ error' = ERR_TIMEOUT
    /\ engine' = "raised"
    /\ UNCHANGED <<pc, dir, transcripts, history, input, question, engine_calls,
                   passed, result, logline, emitted, shown, answered, left_by, uncaught>>

\* The rlm(...) call raises a BaseException that is neither an Exception nor a
\* KeyboardInterrupt (SystemExit, GeneratorExit, asyncio.CancelledError):
\* neither line 228 nor line 233 catches it, it leaves main() and nothing is
\* printed.
EngineRaisesBaseException ==
    /\ pc = "ProcessingQuestion"
    /\ engine = "running"
    /\ error' = ERR_EXIT
    /\ engine' = "idle"
    /\ pc' = "Aborted"
    /\ uncaught' = "BaseException"
    /\ UNCHANGED <<dir, transcripts, history, input, question, engine_calls, passed,
                   result, logline, emitted, shown, answered, left_by>>

\* a KeyboardInterrupt during the rlm(...) call (the handler's emit included) is
\* not an Exception: line 228 lets it pass, line 233 catches it and line 234
\* leaves the loop
EngineInterrupted ==
    /\ pc = "ProcessingQuestion"
    /\ engine \in {"running", "logging"}
    /\ left_by' = "KeyboardInterrupt"
    /\ pc' = "LoopLeft"
    /\ engine' = "idle"
    /\ logline' = <<>>
    /\ emitted' = NoEmit
    /\ UNCHANGED <<dir, transcripts, history, input, question, engine_calls, passed,
                   result, error, shown, answered, uncaught>>

\* a KeyboardInterrupt while display_answer(result) prints (before it prints
\* anything, after its rule, after its Response panel, after its Sources
\* panel) or before line 227 appends, or while the except branch prints the
\* error: line 233 catches it and line 234 leaves the loop; nothing is appended
HandlerInterrupted ==
    /\ pc = "ProcessingQuestion"
    /\ engine \in {"returned", "raised"}
    /\ shown' \in {shown} \cup (IF engine = "returned" THEN DisplayedSoFar(result)
                                                       ELSE {ShowError(error)})
    /\ left_by' = "KeyboardInterrupt"
    /\ pc' = "LoopLeft"
    /\ engine' = "idle"
    /\ result' = NoResult
    /\ error' = <<>>
    /\ UNCHANGED <<dir, transcripts, history, input, question, engine_calls, passed,
                   logline, emitted, answered, uncaught>>

HandleResult_StoresCmd ==
    /\ engine = "returned"
    /\ shown' = display_answer(result)
    /\ history' = Append(history, <<Lower(question), ResultAnswer(result)>>)
    /\ answered' = Append(answered, <<question, ResultAnswer(result)>>)
    /\ engine' = "idle"
    /\ result' = NoResult
    /\ pc' = "AwaitingInput"
    /\ UNCHANGED <<dir, transcripts, input, question, engine_calls, passed, error,
                   logline, emitted, left_by, uncaught>>

\* display_answer(result); history.append((question, answer))
HandleResult ==
    /\ engine = "returned"
    /\ shown' = display_answer(result)
    /\ history' = Append(history, <<question, ResultAnswer(result)>>)
    /\ answered' = Append(answered, <<question, ResultAnswer(result)>>)
    /\ engine' = "idle"
    /\ result' = NoResult
    /\ pc' = "AwaitingInput"
    /\ UNCHANGED <<dir, transcripts, input, question, engine_calls, passed, error,
                   logline, emitted, left_by, uncaught>>

\* display_answer(result) raises an Exception while it renders the result:
\* line 227 is skipped, line 228 catches the exception and line 229 prints it
DisplayAnswerRaises ==
    /\ engine = "returned"
    /\ shown' = ShowError(ERR_DISPLAY)
    /\ engine' = "idle"
    /\ result' = NoResult
    /\ pc' = "AwaitingInput"
    /\ UNCHANGED <<dir, transcripts, history, input, question, engine_calls, passed,
                   error, logline, emitted, answered, left_by, uncaught>>

HandleError_RecordsFailure ==
    /\ engine = "raised"
    /\ shown' = ShowError(error)
    /\ history' = Append(history, <<question, error>>)
    /\ engine' = "idle"
    /\ error' = <<>>
    /\ pc' = "AwaitingInput"
    /\ UNCHANGED <<dir, transcripts, input, question, engine_calls, passed, result,
                   logline, emitted, answered, left_by, uncaught>>

HandleError_Breaks ==
    /\ engine = "raised"
    /\ shown' = ShowError(error)
    /\ engine' = "idle"
    /\ error' = <<>>
    /\ pc' = "LoopLeft"
    /\ UNCHANGED <<dir, transcripts, history, input, question, engine_calls, passed,
                   result, logline, emitted, answered, left_by, uncaught>>

\* except Exception as e: console.print(f"\n[red]Error: {e}[/red]")
HandleError ==
    /\ engine = "raised"
    /\ shown' = ShowError(error)
    /\ engine' = "idle"
    /\ error' = <<>>
    /\ pc' = "AwaitingInput"
    /\ UNCHANGED <<dir, transcripts, history, input, question, engine_calls, passed,
                   result, logline, emitted, answered, left_by, uncaught>>

Next ==
    \/ Startup
    \/ StartupInterrupted
    \/ \E line \in InputLines : Blank(line)
    \/ \E line \in InputLines : Quit(line)
    \/ \E line \in InputLines : Help(line)
    \/ \E line \in InputLines : Reset(line)
    \/ \E line \in InputLines : History(line)
    \/ \E line \in InputLines : Ask(line)
    \/ \E line \in InputLines : PassInterrupted(line)
    \/ EndOfInput
    \/ LoopInterrupted
    \/ Farewell
    \/ FarewellInterrupted
    \/ EngineLog
    \/ EngineLogDone
    \/ EmitErrorPropagates
    \/ EngineReturns
    \/ EngineRaises
    \/ EngineRaisesBaseException
    \/ EngineInterrupted
    \/ HandlerInterrupted
    \/ HandleResult
    \/ DisplayAnswerRaises
    \/ HandleError

Spec == Init /\ [][Next]_vars

(***************************************************************************)
(* Properties.                                                             *)
(***************************************************************************)
IsLine(i) == i.kind = "line"
IsQuitLine(i) == IsLine(i) /\ Cmd(i.text) \in QuitCommands
IsResetLine(i) == IsLine(i) /\ Cmd(i.text) = CMD_RESET
IsCommandLine(i) == IsLine(i) /\ (Strip(i.text) = <<>> \/ Cmd(i.text) \in Commands)

\* no interrupt arrives in the step
NoInterrupt == left_by' = "none" /\ uncaught' = "none"

\* C1 as stated: when the engine call raises, whatever it raises, the error is
\* displayed, the engine is not called again for that question, the history is
\* what it was before the question, and the controller is back in
\* AwaitingInput, not terminated.
C1_FailedQuestion ==
    [][((engine = "raised" /\ engine' # "raised")
            \/ (engine = "running" /\ uncaught' = "BaseException")) =>
          /\ shown'.kind = "error"
          /\ shown'.text \in {error, error'}
          /\ history' = history
          /\ history' = answered
          /\ pc' = "AwaitingInput"
          /\ engine' = "idle"
          /\ engine_calls = 1
          /\ engine_calls' = 1]_vars

\* C1 amended: when the engine call raises an Exception, the engine is not
\* called again for that question and the history is what it was before the
\* question; unless an interrupt arrives while the error is handled, the error
\* is displayed and the controller is back in AwaitingInput. When the call
\* raises a BaseException that is no Exception and no KeyboardInterrupt, no
\* error is displayed and the exception leaves main(), with the history
\* unchanged and no second call.
C1_FailedQuestionByException ==
    [][/\ (engine = "raised" /\ engine' # "raised") =>
            /\ history' = history
            /\ history' = answered
            /\ engine' = "idle"
            /\ engine_calls = 1
            /\ engine_calls' = 1
            /\ NoInterrupt => (shown' = ShowError(error) /\ pc' = "AwaitingInput")
       /\ (engine = "running" /\ uncaught' = "BaseException") =>
            /\ history' = history
            /\ history' = answered
            /\ engine' = "idle"
            /\ engine_calls = 1
            /\ engine_calls' = 1
            /\ shown' = shown
            /\ pc' = "Aborted"]_vars

\* a failed question was handled in a session that already holds an exchange
C1_Witness ==
    /\ pc = "AwaitingInput"
    /\ shown = ShowError(ERR_TIMEOUT)
    /\ history # <<>>

\* C2 as stated: after the engine call returns, the history is the previous
\* history with the single pair (trimmed question as entered, the result's
\* answer) appended, and the controller is back in AwaitingInput.
C2_SuccessfulQuestion ==
    [][(engine = "returned" /\ engine' # "returned") =>
          /\ IsLine(input)
          /\ history' = history \o << <<Strip(input.text), result.answer>> >>
          /\ Len(history') = Len(history) + 1
          /\ SubSeq(history', 1, Len(history)) = history
          /\ pc' = "AwaitingInput"]_vars

\* C2 amended: after the engine call returns and display_answer has shown the
\* result, with no exception raised by it and no interrupt before the append,
\* the history is the previous history with the single pair (trimmed question
\* as entered, the result's answer) appended and the controller is back in
\* AwaitingInput; when display_answer raises or an interrupt arrives, the
\* history is unchanged.
C2_DisplayedAnswerIsAppended ==
    [][(engine = "returned" /\ engine' # "returned") =>
          /\ IsLine(input)
          /\ IF NoInterrupt /\ shown' = display_answer(result)
             THEN /\ history' = history \o << <<Strip(input.text), result.answer>> >>
                  /\ Len(history') = Len(history) + 1
                  /\ SubSeq(history', 1, Len(history)) = history
                  /\ pc' = "AwaitingInput"
             ELSE history' = history]_vars

\* the question " Y " was answered second and stored trimmed
C2_Witness ==
    /\ pc = "AwaitingInput"
    /\ shown.kind = "answer"
    /\ input = Line(<<" ", "Y", " ">>)
    /\ Len(history) = 2
    /\ history[2] = << <<"Y">>, shown.text >>

\* C3: emit never raises, whatever the log line, and a malformed line never
\* shows up as an error of the question.
C3_EmitNeverRaises ==
    /\ ~emitted.raised
    /\ ~(shown.kind = "error" /\ shown.text = ERR_INDEX)

\* the farewell is printed and main() has returned only after the loop was left
\* by quit, exit or q (trimmed, any case), by an interrupt or by end-of-input
TerminatedOnlyByExit ==
    pc = "Terminated" =>
        /\ shown = Goodbye
        /\ uncaught = "none"
        /\ \/ left_by = "quit" /\ IsQuitLine(input)
           \/ left_by \in {"KeyboardInterrupt", "EOFError"}

\* C4 as stated: the session is terminated only by quit, exit or q (trimmed,
\* any case), by an interrupt or by end-of-input; once any other line is
\* handled, and once a question is whether its engine call returned or raised,
\* the controller is in AwaitingInput unless the loop was left.
C4_TerminatedOnlyByExit ==
    /\ TerminatedOnlyByExit
    /\ (IsLine(input) /\ ~IsQuitLine(input) /\ engine = "idle" /\ left_by = "none")
           => pc = "AwaitingInput"

\* C4 amended: the session is terminated only by quit, exit or q (trimmed, any
\* case), by an interrupt or by end-of-input; once any other line is handled,
\* and once a question is whether its engine call returned or raised an
\* Exception, the controller is in AwaitingInput unless an interrupt arrived.
\* An interrupt outside the try of the loop and an engine call that raises a
\* BaseException that is no Exception leave main() by the exception, and the
\* session does not reach Terminated.
C4_TerminatedOnlyByExitOrAborted ==
    /\ TerminatedOnlyByExit
    /\ (IsLine(input) /\ ~IsQuitLine(input) /\ engine = "idle" /\ left_by = "none"
           /\ uncaught = "none") => pc = "AwaitingInput"
    /\ uncaught # "none" => pc \in {"Aborted", "StartupInterrupted"}

\* the session was terminated by " Quit\r", after an earlier question had been
\* answered and had left it running
C4_Witness ==
    /\ pc = "Terminated"
    /\ left_by = "quit"
    /\ input = Line(<<" ", "Q", "u", "i", "t", "\r">>)
    /\ shown = Goodbye
    /\ history # <<>>

\* C5 as stated: reset empties the history whatever its length, stays in
\* AwaitingInput and calls no engine; a reset right after a reset changes
\* nothing.
C5_Reset ==
    [][(pc = "AwaitingInput" /\ IsResetLine(input')) =>
          /\ history' = <<>>
          /\ pc' = "AwaitingInput"
          /\ engine' = "idle"
          /\ engine_calls' = 0
          /\ (IsResetLine(input) /\ Cmd(input.text) = Cmd(input'.text)) =>
                 <<pc, history, engine, engine_calls, passed, shown, answered>>'
                     = <<pc, history, engine, engine_calls, passed, shown, answered>>]_vars

\* C5 amended: unless an interrupt arrives, reset empties the history whatever
\* its length, stays in AwaitingInput and calls no engine, and a reset right
\* after a reset changes nothing; with an interrupt no engine is called either.
C5_ResetUnlessInterrupted ==
    [][(pc = "AwaitingInput" /\ IsResetLine(input')) =>
          /\ engine' = "idle"
          /\ engine_calls' = 0
          /\ NoInterrupt =>
               /\ history' = <<>>
               /\ pc' = "AwaitingInput"
               /\ (IsResetLine(input) /\ Cmd(input.text) = Cmd(input'.text)) =>
                      <<pc, history, engine, engine_calls, passed, shown, answered>>'
                          = <<pc, history, engine, engine_calls, passed, shown, answered>>]_vars

\* a reset emptied a history of a session whose last question was asked with
\* a history that was not empty
C5_Witness ==
    /\ IsResetLine(input)
    /\ history = <<>>
    /\ pc = "AwaitingInput"
    /\ left_by = "none"
    /\ uncaught = "none"
    /\ StartsWith(passed, HISTORY_HEADER)

\* C6: the history passed to the engine is format_history of the exchanges
\* answered successfully since the last reset, in order, and the sentinel when
\* there are none.
C6_PassedHistory ==
    pc = "ProcessingQuestion" =>
        /\ passed = format_history(answered)
        /\ answered = <<>> => passed = NO_HISTORY
        /\ answered = history

\* a question is in progress with two earlier exchanges passed along, the
\* long answer first and the short one second
C6_Witness ==
    /\ pc = "ProcessingQuestion"
    /\ Len(answered) = 2
    /\ answered[1][2] = ANSWER_LONG
    /\ answered[2][2] = ANSWER_SHORT
    /\ passed = format_history(<< <<<<"Y">>, ANSWER_LONG>>, <<<<"Y">>, ANSWER_SHORT>> >>)

\* C7: the corpus load_transcripts returned has one entry per .txt file and no
\* empty title.
C7_OneEntryPerFile ==
    (pc \notin {"Loading", "StartupInterrupted"} /\ GlobTxt(dir) # {}) =>
        /\ Cardinality(DOMAIN transcripts) = Cardinality(GlobTxt(dir))
        /\ <<>> \notin DOMAIN transcripts

\* the histories a session can hold
Pairs == {Strip(l) : l \in {k \in InputLines : ~IsCommandLine(Line(k))}} \X Answers

Histories == UNION {[1..n -> Pairs] : n \in 0..MaxHistory}

FormatOf == [h \in Histories |-> format_history(h)]

\* C8: two different histories never format to the same text.
C8_FormatInjective ==
    \A h \in Histories : FormatOf[h] = format_history(history) => h = history

\* the reasoning and code segments as the claim defines them
ClaimedReasoning(body) ==
    IF Contains(body, CODE)
    THEN Strip(Slice(body, Find(body, REASONING) + Len(REASONING), Find(body, CODE)))
    ELSE Strip(SliceFrom(body, Find(body, REASONING) + Len(REASONING)))

ClaimedCode(body) ==
    IF Contains(body, CODE) THEN Strip(SliceFrom(body, Find(body, CODE) + Len(CODE))) ELSE <<>>

ClaimedEvents(msg) ==
    LET header == MsgParts(msg)[1]
        body   == MsgParts(msg)[2]
    IN  <<IterationStart(IterNum(header))>>
        \o (IF ClaimedReasoning(body) # <<>>
            THEN <<ReasoningBlock(ReasoningDisplay(ClaimedReasoning(body)))>> ELSE <<>>)
        \o (IF ClaimedCode(body) # <<>>
            THEN <<CodeBlock(CodeDisplay(ClaimedCode(body)))>> ELSE <<>>)

\* C9: for an iteration-progress line with "Reasoning:" in its body, the events
\* are IterationStart, then the reasoning between "Reasoning:" and "Code:" if
\* not empty, then the code after "Code:" (wherever it stands) if not empty.
C9_Segments ==
    (/\ engine = "logging"
     /\ Contains(MsgParts(logline)[1], RLM_MARKER)
     /\ Len(MsgParts(logline)) = 2
     /\ Contains(MsgParts(logline)[2], REASONING)) =>
        /\ ~emitted.raised
        /\ emitted.events = ClaimedEvents(logline)

\* C10: the history changes only by the append after a successful engine call
\* and by the clear of reset; no command calls the engine.
C10_HistoryFrame ==
    [][/\ history' # history =>
            \/ engine = "returned" /\ history' = Append(history, <<question, result.answer>>)
            \/ pc = "AwaitingInput" /\ IsResetLine(input') /\ history' = <<>>
       /\ (pc = "AwaitingInput" /\ IsCommandLine(input')) =>
            engine' = "idle" /\ engine_calls' = 0]_vars

\* the history command showed an answer elided to 200 characters, and the
\* stored answer is still whole
C10_Witness ==
    /\ shown.kind = "history"
    /\ Len(shown.items) = 2
    /\ \E i \in 1..2 : /\ history[i][2] = ANSWER_LONG
                       /\ shown.items[i][2] = Slice(ANSWER_LONG, 0, HistoryAnswerLimit) \o ELLIPSIS

====
